---- MODULE Spec2Model ----
\* Model of the fruity bindings' AEEventClass value type
\* (src/core_services/apple_events/event_class.rs) and of the Core Foundation
\* index constants (src/core_foundation/mod.rs).
\*
\* A u32 is kept as two 16-bit limbs [hi, lo] (value = hi * 2^16 + lo) so that
\* the whole 32-bit range, including values with the top bit set, is
\* representable; every operation on it is computed limb-wise, modulo 2^32.
EXTENDS Integers, Sequences, FiniteSets, TLC

\* ------------------------------------------------------------------ bounds

NumByteSamples == 5
NumCmpSamples == 2
MaxIndex == 1

\* Representative byte values, in the order the bounds select them:
\* 'a', 0xFF, NUL, DEL, '~', ' ', 0x80, '\', 'e', LF.
ByteTable == <<97, 255, 0, 127, 126, 32, 128, 92, 101, 10>>

Min(a, b) == IF a < b THEN a ELSE b

ByteSamples == {ByteTable[i] : i \in 1..Min(NumByteSamples, Len(ByteTable))}

CmpByteSamples == {ByteTable[i] : i \in 1..Min(NumCmpSamples, Len(ByteTable))}

CharsSamples == {<<a, b, c, d>> : a \in ByteSamples, b \in ByteSamples, c \in ByteSamples, d \in ByteSamples}

CmpCharsSamples == {<<a, b, c, d>> : a \in CmpByteSamples, b \in CmpByteSamples, c \in CmpByteSamples, d \in CmpByteSamples}

U32Samples == {[hi |-> (a * 256) + b, lo |-> (c * 256) + d] : a \in ByteSamples, b \in ByteSamples, c \in ByteSamples, d \in ByteSamples}

IndexSamples == 0..MaxIndex

\* ------------------------------------------------- core::FourCharCode (u32)

\* The zero u32, used for result slots that hold nothing yet.
U32Zero == [hi |-> 0, lo |-> 0]

\* FourCharCode::from_int: wraps the raw integer verbatim.
FourCharCode_from_int(int) == int

\* FourCharCode::from_chars: packs the bytes big-endian, first byte in the
\* most significant 8 bits.
FourCharCode_from_chars(chars) == [hi |-> (chars[1] * 256) + chars[2], lo |-> (chars[3] * 256) + chars[4]]

\* FourCharCode::into_int: the stored value, unchanged.
FourCharCode_into_int(self) == self

\* FourCharCode::into_chars: unpacks big-endian.
FourCharCode_into_chars(self) == <<self.hi \div 256, self.hi % 256, self.lo \div 256, self.lo % 256>>

\* Ordering of two FourCharCodes: the numeric order of the 32-bit values.
FourCharCode_cmp(a, b) ==
  IF a.hi < b.hi \/ (a.hi = b.hi /\ a.lo < b.lo) THEN "Less"
  ELSE IF a.hi = b.hi /\ a.lo = b.lo THEN "Equal"
  ELSE "Greater"

\* Equality of two FourCharCodes: value equality on the 32-bit integer.
FourCharCode_eq(a, b) == a.hi = b.hi /\ a.lo = b.lo

IsPrintable(c) == c >= 32 /\ c <= 126

\* Character code of a lowercase hexadecimal digit.
HexDigit(d) == IF d < 10 THEN 48 + d ELSE 87 + d

\* One byte as ASCII text (a sequence of character codes): itself when
\* printable, the escape \xNN otherwise.
EscapeByte(c) == IF IsPrintable(c) THEN <<c>> ELSE <<92, 120, HexDigit(c \div 16), HexDigit(c % 16)>>

\* <FourCharCode as fmt::Debug>::fmt: the four bytes as escaped ASCII.
FourCharCode_fmt(self) ==
  LET chars == FourCharCode_into_chars(self)
  IN  EscapeByte(chars[1]) \o EscapeByte(chars[2]) \o EscapeByte(chars[3]) \o EscapeByte(chars[4])

\* ------------------------------------------------------------ AEEventClass
\* pub struct AEEventClass(pub FourCharCode): a 1-tuple; self[1] is self.0.

AEEventClass_from_int_swapped(int) == <<FourCharCode_from_int([hi |-> ((int.lo % 256) * 256) + (int.lo \div 256), lo |-> ((int.hi % 256) * 256) + (int.hi \div 256)])>>

AEEventClass_from_int_ascii(int) == <<FourCharCode_from_int([hi |-> (((int.hi \div 256) % 128) * 256) + (int.hi % 128), lo |-> (((int.lo \div 256) % 128) * 256) + (int.lo % 128)])>>

AEEventClass_from_int(int) == <<FourCharCode_from_int(int)>>

AEEventClass_from_chars_le(chars) == <<FourCharCode_from_chars(<<chars[4], chars[3], chars[2], chars[1]>>)>>

AEEventClass_from_chars(chars) == <<FourCharCode_from_chars(chars)>>

AEEventClass_into_int_u16(self) == [hi |-> 0, lo |-> FourCharCode_into_int(self[1]).lo]

AEEventClass_into_int(self) == FourCharCode_into_int(self[1])

AEEventClass_into_chars_le(self) == LET c == FourCharCode_into_chars(self[1]) IN <<c[4], c[3], c[2], c[1]>>

AEEventClass_into_chars(self) == FourCharCode_into_chars(self[1])

\* What #[derive(Debug)] would print: the struct name around the field.
AEEventClass_fmt_derived(self) == <<65, 69, 69, 118, 101, 110, 116, 67, 108, 97, 115, 115, 40>> \o FourCharCode_fmt(self[1]) \o <<41>>

AEEventClass_fmt(self) == FourCharCode_fmt(self[1])

AEEventClass_cmp_flipped(self, other) == FourCharCode_cmp(other[1], self[1])

\* #[derive(Ord, PartialOrd)]: compares the single field.
AEEventClass_cmp(self, other) == FourCharCode_cmp(self[1], other[1])

\* #[derive(Eq, PartialEq)]: compares the single field.
AEEventClass_eq(self, other) == FourCharCode_eq(self[1], other[1])

\* ------------------------------------------------- named constants (table)

ConstNames ==
    {"CORE", "MOUSE", "KEYBOARD", "TEXT_INPUT",
     "APPLICATION", "APPLE_EVENT", "MENU", "WINDOW",
     "CONTROL", "COMMAND", "TABLET", "VOLUME",
     "APPEARANCE_MANAGER", "SERVICE", "TOOLBAR", "TOOLBAR_ITEM",
     "TOOLBAR_ITEM_VIEW", "ACCESSIBILITY", "SYSTEM", "INK",
     "TSM_DOCUMENT_ACCESS", "GESTURE", "CLOCK_VIEW", "TEXT_FIELD",
     "HI_OBJECT", "DELEGATE", "SCROLLABLE", "HI_COMBO_BOX",
     "SEARCH_FIELD", "APPEARANCE", "DATA_BROWSER", "INTERNET",
     "IC_EDIT_PREFERENCE", "DIGI_HUB", "FONT", "AB_PEOPLE_PICKER"}

\* The byte-string literal each constant is built from (b"....").
ConstLiteral(n) ==
  CASE
    n = "CORE" -> <<97, 101, 118, 116>>             \* aevt
 [] n = "MOUSE" -> <<109, 111, 117, 115>>           \* mous
 [] n = "KEYBOARD" -> <<107, 101, 121, 98>>         \* keyb
 [] n = "TEXT_INPUT" -> <<116, 101, 120, 116>>      \* text
 [] n = "APPLICATION" -> <<97, 112, 112, 108>>      \* appl
 [] n = "APPLE_EVENT" -> <<101, 112, 112, 99>>      \* eppc
 [] n = "MENU" -> <<109, 101, 110, 117>>            \* menu
 [] n = "WINDOW" -> <<119, 105, 110, 100>>          \* wind
 [] n = "CONTROL" -> <<99, 110, 116, 108>>          \* cntl
 [] n = "COMMAND" -> <<99, 109, 100, 115>>          \* cmds
 [] n = "TABLET" -> <<116, 98, 108, 116>>           \* tblt
 [] n = "VOLUME" -> <<118, 111, 108, 32>>           \* vol
 [] n = "APPEARANCE_MANAGER" -> <<97, 112, 112, 109>>\* appm
 [] n = "SERVICE" -> <<115, 101, 114, 118>>         \* serv
 [] n = "TOOLBAR" -> <<116, 98, 97, 114>>           \* tbar
 [] n = "TOOLBAR_ITEM" -> <<116, 98, 105, 116>>     \* tbit
 [] n = "TOOLBAR_ITEM_VIEW" -> <<116, 98, 105, 118>>\* tbiv
 [] n = "ACCESSIBILITY" -> <<97, 99, 99, 101>>      \* acce
 [] n = "SYSTEM" -> <<109, 97, 99, 115>>            \* macs
 [] n = "INK" -> <<105, 110, 107, 32>>              \* ink
 [] n = "TSM_DOCUMENT_ACCESS" -> <<116, 100, 97, 99>>\* tdac
 [] n = "GESTURE" -> <<103, 101, 115, 116>>         \* gest
 [] n = "CLOCK_VIEW" -> <<99, 108, 111, 99>>        \* cloc
 [] n = "TEXT_FIELD" -> <<116, 120, 102, 100>>      \* txfd
 [] n = "HI_OBJECT" -> <<104, 105, 111, 98>>        \* hiob
 [] n = "DELEGATE" -> <<100, 101, 108, 101>>        \* dele
 [] n = "SCROLLABLE" -> <<115, 99, 114, 108>>       \* scrl
 [] n = "HI_COMBO_BOX" -> <<104, 105, 99, 98>>      \* hicb
 [] n = "SEARCH_FIELD" -> <<115, 114, 102, 100>>    \* srfd
 [] n = "APPEARANCE" -> <<97, 112, 112, 114>>       \* appr
 [] n = "DATA_BROWSER" -> <<104, 105, 100, 98>>     \* hidb
 [] n = "INTERNET" -> <<71, 85, 82, 76>>            \* GURL
 [] n = "IC_EDIT_PREFERENCE" -> <<73, 67, 65, 112>> \* ICAp
 [] n = "DIGI_HUB" -> <<100, 104, 117, 98>>         \* dhub
 [] n = "FONT" -> <<102, 111, 110, 116>>            \* font
 [] n = "AB_PEOPLE_PICKER" -> <<97, 98, 112, 112>>  \* abpp

\* The code each constant's documentation states ("Value: `....`").
DocValue(n) ==
  CASE
    n = "CORE" -> <<97, 101, 118, 116>>             \* aevt
 [] n = "MOUSE" -> <<109, 111, 117, 115>>           \* mous
 [] n = "KEYBOARD" -> <<107, 101, 121, 98>>         \* keyb
 [] n = "TEXT_INPUT" -> <<116, 101, 120, 116>>      \* text
 [] n = "APPLICATION" -> <<97, 112, 112, 108>>      \* appl
 [] n = "APPLE_EVENT" -> <<101, 112, 112, 99>>      \* eppc
 [] n = "MENU" -> <<109, 101, 110, 117>>            \* menu
 [] n = "WINDOW" -> <<119, 105, 110, 100>>          \* wind
 [] n = "CONTROL" -> <<99, 110, 116, 108>>          \* cntl
 [] n = "COMMAND" -> <<99, 109, 100, 115>>          \* cmds
 [] n = "TABLET" -> <<116, 98, 108, 116>>           \* tblt
 [] n = "VOLUME" -> <<118, 111, 108, 32>>           \* vol
 [] n = "APPEARANCE_MANAGER" -> <<97, 112, 112, 109>>\* appm
 [] n = "SERVICE" -> <<115, 101, 114, 118>>         \* serv
 [] n = "TOOLBAR" -> <<116, 98, 97, 114>>           \* tbar
 [] n = "TOOLBAR_ITEM" -> <<116, 98, 105, 116>>     \* tbit
 [] n = "TOOLBAR_ITEM_VIEW" -> <<116, 98, 105, 118>>\* tbiv
 [] n = "ACCESSIBILITY" -> <<97, 99, 99, 101>>      \* acce
 [] n = "SYSTEM" -> <<109, 97, 99, 115>>            \* macs
 [] n = "INK" -> <<105, 110, 107, 32>>              \* ink
 [] n = "TSM_DOCUMENT_ACCESS" -> <<116, 100, 97, 99>>\* tdac
 [] n = "GESTURE" -> <<103, 101, 115, 116>>         \* gest
 [] n = "CLOCK_VIEW" -> <<99, 108, 111, 99>>        \* cloc
 [] n = "TEXT_FIELD" -> <<116, 120, 102, 100>>      \* txfd
 [] n = "HI_OBJECT" -> <<104, 105, 111, 98>>        \* hiob
 [] n = "DELEGATE" -> <<100, 101, 108, 101>>        \* dele
 [] n = "SCROLLABLE" -> <<115, 99, 114, 108>>       \* scrl
 [] n = "HI_COMBO_BOX" -> <<104, 105, 99, 98>>      \* hicb
 [] n = "SEARCH_FIELD" -> <<115, 114, 102, 100>>    \* srfd
 [] n = "APPEARANCE" -> <<97, 112, 112, 114>>       \* appr
 [] n = "DATA_BROWSER" -> <<104, 105, 100, 98>>     \* hidb
 [] n = "INTERNET" -> <<71, 85, 82, 76>>            \* GURL
 [] n = "IC_EDIT_PREFERENCE" -> <<73, 67, 65, 112>> \* ICAp
 [] n = "DIGI_HUB" -> <<100, 104, 117, 98>>         \* dhub
 [] n = "FONT" -> <<102, 111, 110, 116>>            \* font
 [] n = "AB_PEOPLE_PICKER" -> <<97, 98, 112, 112>>  \* abpp

AEEventClassConst_typo(n) == AEEventClass_from_chars(IF n = "VOLUME" THEN <<118, 111, 108, 117>> ELSE ConstLiteral(n))

AEEventClassConst_dup(n) == AEEventClass_from_chars(IF n = "APPEARANCE" THEN <<97, 112, 112, 109>> ELSE ConstLiteral(n))

\* pub const NAME: Self = Self::from_chars(*b"....");
AEEventClassConst(n) == AEEventClass_from_chars(ConstLiteral(n))

\* ---------------------------------------------------------- core_foundation

\* The constant with its sign lost.
kCFNotFound_nosign == -(-1)

kCFNotFound == -1

\* pub type CFIndex = isize
CFIndex == Int

\* -------------------------------------------------------------------- state

VARIABLES
  src,       \* how ec was built: "none", "int", "chars" or "const"
  argInt,    \* the u32 given to from_int
  argChars,  \* the bytes given to from_chars (a constant's literal for "const")
  argName,   \* the constant's name for "const"
  ec,        \* the AEEventClass value under observation
  op,        \* the last operation applied to ec
  retInt,    \* result of into_int
  retChars,  \* result of into_chars
  retFmt,    \* text written by fmt
  rhsChars,  \* the bytes the right-hand side of a comparison was built from
  rhs,       \* the right-hand side of a comparison
  retOrd,    \* result of cmp
  retEq,     \* result of ==
  idx,       \* a CFIndex: the result of a search
  hit        \* whether the search located its target

vars == <<src, argInt, argChars, argName, ec, op, retInt, retChars, retFmt, rhsChars, rhs, retOrd, retEq, idx, hit>>

NoChars == <<0, 0, 0, 0>>

Init ==
  /\ src = "none"
  /\ argInt = U32Zero
  /\ argChars = NoChars
  /\ argName = ""
  /\ ec = AEEventClass_from_int(U32Zero)
  /\ op = "none"
  /\ retInt = U32Zero
  /\ retChars = NoChars
  /\ retFmt = <<>>
  /\ rhsChars = NoChars
  /\ rhs = AEEventClass_from_int(U32Zero)
  /\ retOrd = "Equal"
  /\ retEq = TRUE
  /\ idx = kCFNotFound
  /\ hit = FALSE

\* A value is immutable once constructed: each behaviour builds one value
\* (src = "none" before that) and then observes it.

\* A new value has been built: no operation has been applied to it yet.
ResetResults ==
  /\ op' = "none"
  /\ retInt' = U32Zero
  /\ retChars' = NoChars
  /\ retFmt' = <<>>
  /\ rhsChars' = NoChars
  /\ rhs' = AEEventClass_from_int(U32Zero)
  /\ retOrd' = "Equal"
  /\ retEq' = TRUE

\* AEEventClass::from_int(int)
FromInt ==
  /\ src = "none"
  /\ \E int \in U32Samples :
       /\ ec' = AEEventClass_from_int(int)
       /\ argInt' = int
  /\ src' = "int"
  /\ argChars' = NoChars
  /\ argName' = ""
  /\ ResetResults
  /\ UNCHANGED <<idx, hit>>

\* AEEventClass::from_chars(chars)
FromChars ==
  /\ src = "none"
  /\ \E chars \in CharsSamples :
       /\ ec' = AEEventClass_from_chars(chars)
       /\ argChars' = chars
  /\ src' = "chars"
  /\ argInt' = U32Zero
  /\ argName' = ""
  /\ ResetResults
  /\ UNCHANGED <<idx, hit>>

\* AEEventClass::NAME
LoadConst ==
  /\ src = "none"
  /\ \E n \in ConstNames :
       /\ ec' = AEEventClassConst(n)
       /\ argChars' = ConstLiteral(n)
       /\ argName' = n
  /\ src' = "const"
  /\ argInt' = U32Zero
  /\ ResetResults
  /\ UNCHANGED <<idx, hit>>

\* The operations are pure and leave ec alone, so their results do not depend
\* on one another: each behaviour applies one operation to the value it built
\* (op = "none" before that) and the state keeps that operation's result.

\* ec.into_int()
IntoInt ==
  /\ src # "none"
  /\ op = "none"
  /\ op' = "into_int"
  /\ retInt' = AEEventClass_into_int(ec)
  /\ retChars' = NoChars
  /\ retFmt' = <<>>
  /\ rhsChars' = NoChars
  /\ rhs' = AEEventClass_from_int(U32Zero)
  /\ retOrd' = "Equal"
  /\ retEq' = TRUE
  /\ UNCHANGED <<src, argInt, argChars, argName, ec, idx, hit>>

\* ec.into_chars()
IntoChars ==
  /\ src # "none"
  /\ op = "none"
  /\ op' = "into_chars"
  /\ retChars' = AEEventClass_into_chars(ec)
  /\ retInt' = U32Zero
  /\ retFmt' = <<>>
  /\ rhsChars' = NoChars
  /\ rhs' = AEEventClass_from_int(U32Zero)
  /\ retOrd' = "Equal"
  /\ retEq' = TRUE
  /\ UNCHANGED <<src, argInt, argChars, argName, ec, idx, hit>>

\* format!("{:?}", ec)
Fmt ==
  /\ src # "none"
  /\ op = "none"
  /\ op' = "fmt"
  /\ retFmt' = AEEventClass_fmt(ec)
  /\ retInt' = U32Zero
  /\ retChars' = NoChars
  /\ rhsChars' = NoChars
  /\ rhs' = AEEventClass_from_int(U32Zero)
  /\ retOrd' = "Equal"
  /\ retEq' = TRUE
  /\ UNCHANGED <<src, argInt, argChars, argName, ec, idx, hit>>

\* ec.cmp(&rhs) and ec == rhs, with rhs = AEEventClass::from_chars(chars)
Compare ==
  /\ src # "none"
  /\ op = "none"
  /\ op' = "cmp"
  /\ \E chars \in CmpCharsSamples :
       /\ rhsChars' = chars
       /\ rhs' = AEEventClass_from_chars(chars)
       /\ retOrd' = AEEventClass_cmp(ec, AEEventClass_from_chars(chars))
       /\ retEq' = AEEventClass_eq(ec, AEEventClass_from_chars(chars))
  /\ retInt' = U32Zero
  /\ retChars' = NoChars
  /\ retFmt' = <<>>
  /\ UNCHANGED <<src, argInt, argChars, argName, ec, idx, hit>>

\* A search that located its target at index i.
SearchHit(i) ==
  /\ idx' = i
  /\ hit' = TRUE
  /\ UNCHANGED <<src, argInt, argChars, argName, ec, op, retInt, retChars, retFmt, rhsChars, rhs, retOrd, retEq>>

\* A search that did not locate its target.
SearchMiss ==
  /\ idx' = kCFNotFound
  /\ hit' = FALSE
  /\ UNCHANGED <<src, argInt, argChars, argName, ec, op, retInt, retChars, retFmt, rhsChars, rhs, retOrd, retEq>>

Next ==
  \/ FromInt
  \/ FromChars
  \/ LoadConst
  \/ IntoInt
  \/ IntoChars
  \/ Fmt
  \/ Compare
  \/ \E i \in IndexSamples : SearchHit(i)
  \/ SearchMiss

Spec == Init /\ [][Next]_vars

\* ------------------------------------------------------------------ claims

\* A u32 as the pair (top bit, low 31 bits): value = TopBit * 2^31 + Low31.
TopBit(x) == x.hi \div 32768

Low31(x) == ((x.hi % 32768) * 65536) + x.lo

\* The big-endian interpretation of four bytes, in the same two parts.
BigEndianTopBit(b) == b[1] \div 128

BigEndianLow31(b) == ((b[1] % 128) * 16777216) + (b[2] * 65536) + (b[3] * 256) + b[4]

\* The four bytes of a u32, most significant first.
BytesOf(x) == <<TopBit(x) * 128 + (Low31(x) \div 16777216), (Low31(x) \div 65536) % 256, (Low31(x) \div 256) % 256, Low31(x) % 256>>

\* Numeric order of two u32 values.
NumericOrd(x, y) ==
  IF TopBit(x) < TopBit(y) \/ (TopBit(x) = TopBit(y) /\ Low31(x) < Low31(y)) THEN "Less"
  ELSE IF TopBit(x) = TopBit(y) /\ Low31(x) = Low31(y) THEN "Equal"
  ELSE "Greater"

\* Lexicographic order of two 4-byte sequences, first byte most significant.
LexOrd(a, b) ==
  IF \E i \in 1..4 : a[i] # b[i]
  THEN LET k == CHOOSE i \in 1..4 : a[i] # b[i] /\ \A j \in 1..(i - 1) : a[j] = b[j]
       IN  IF a[k] < b[k] THEN "Less" ELSE "Greater"
  ELSE "Equal"

\* C1: from_chars(b).into_int() is the big-endian interpretation
\* b0*2^24 + b1*2^16 + b2*2^8 + b3 of the bytes; for "aevt" it is 0x61657674.
C1_BigEndianPack ==
  (op = "into_int" /\ src \in {"chars", "const"}) =>
    /\ TopBit(retInt) = BigEndianTopBit(argChars)
    /\ Low31(retInt) = BigEndianLow31(argChars)
    /\ (argChars = <<97, 101, 118, 116>> => TopBit(retInt) = 0 /\ Low31(retInt) = 1634039412)

C1_Witness == op = "into_int" /\ src = "const" /\ argName = "CORE" /\ argChars = <<97, 101, 118, 116>> /\ Low31(retInt) = 1634039412

\* C2: from_chars(b).into_chars() returns the same four bytes in the same order.
C2_CharsRoundTrip == (op = "into_chars" /\ src = "chars") => retChars = argChars

C2_Witness == op = "into_chars" /\ src = "chars" /\ argChars = <<97, 255, 0, 127>> /\ retChars = <<97, 255, 0, 127>>

\* C3: from_int(v).into_int() returns v verbatim, no truncation, no byte swap.
C3_IntRoundTrip == (op = "into_int" /\ src = "int") => retInt = argInt

C3_Witness == op = "into_int" /\ src = "int" /\ argInt = [hi |-> 65377, lo |-> 127] /\ retInt = [hi |-> 65377, lo |-> 127]

\* C4: into_chars and from_chars are inverses in both directions: unpacking a
\* value built by from_chars gives its bytes back, and packing the bytes of a
\* value built by from_int gives the value back; the bytes come out most
\* significant first.
C4_ExactInverses ==
  /\ (op = "into_chars" /\ src = "chars") => retChars = argChars
  /\ (op = "into_chars" /\ src = "int") =>
       /\ AEEventClass_from_chars(retChars) = ec
       /\ AEEventClass_into_int(AEEventClass_from_chars(retChars)) = argInt
       /\ retChars = BytesOf(argInt)

C4_Witness == op = "into_chars" /\ src = "int" /\ argInt = [hi |-> 65377, lo |-> 127] /\ retChars = <<255, 97, 0, 127>>

\* C5: every named constant decodes, via into_chars, to the 4-character code
\* its documentation states.
C5_ConstantsMatchDocs == (op = "into_chars" /\ src = "const") => retChars = DocValue(argName)

C5_Witness == op = "into_chars" /\ src = "const" /\ argName = "VOLUME" /\ retChars = <<118, 111, 108, 32>>

\* C6: equality and ordering are those of the packed 32-bit integer: values
\* built from the same bytes are equal, from different bytes unequal, and
\* the order is the numeric order of into_int, which is the lexicographic
\* order of the bytes.
C6_StructuralOrder ==
  (op = "cmp") =>
    /\ retOrd = NumericOrd(AEEventClass_into_int(ec), AEEventClass_into_int(rhs))
    /\ retEq = (retOrd = "Equal")
    /\ src \in {"chars", "const"} =>
         /\ retEq = (argChars = rhsChars)
         /\ retOrd = LexOrd(argChars, rhsChars)

C6_Witness == op = "cmp" /\ src = "chars" /\ argChars = <<97, 255, 255, 255>> /\ rhsChars = <<255, 97, 97, 97>> /\ retOrd = "Less" /\ ~retEq

\* C7: every operation is total and validates nothing: any u32 and any four
\* bytes, printable or not, are stored as given, and into_int / into_chars
\* return a u32 / four bytes for every value.
C7_TotalNoValidation ==
  /\ Len(ec) = 1 /\ ec[1].hi \in 0..65535 /\ ec[1].lo \in 0..65535
  /\ src = "int" => BytesOf(ec[1]) = BytesOf(argInt)
  /\ src = "chars" => BytesOf(ec[1]) = argChars
  /\ op = "into_int" => retInt.hi \in 0..65535 /\ retInt.lo \in 0..65535 /\ BytesOf(retInt) = BytesOf(ec[1])
  /\ op = "into_chars" => Len(retChars) = 4 /\ (\A i \in 1..4 : retChars[i] \in 0..255) /\ retChars = BytesOf(ec[1])

C7_Witness == op = "into_chars" /\ src = "int" /\ argInt = [hi |-> 65535, lo |-> 65535] /\ retChars = <<255, 255, 255, 255>>

\* The text of one byte: the byte itself when printable, its escape otherwise.
AsciiText(b) == IF b >= 32 /\ b <= 126 THEN <<b>> ELSE EscapeByte(b)

\* C8: Debug formatting writes the four bytes, most significant first, as
\* ASCII text with the non-printable ones escaped, and nothing around them:
\* exactly what the wrapped FourCharCode's formatter writes.
C8_DebugFormat ==
  (op = "fmt") =>
    LET b == BytesOf(ec[1])
    IN  /\ retFmt = AsciiText(b[1]) \o AsciiText(b[2]) \o AsciiText(b[3]) \o AsciiText(b[4])
        /\ retFmt = FourCharCode_fmt(ec[1])
        /\ \A i \in 1..Len(retFmt) : retFmt[i] >= 32 /\ retFmt[i] <= 126
        /\ (\A i \in 1..4 : b[i] >= 32 /\ b[i] <= 126) => retFmt = b
        /\ (\A i \in 1..4 : ~(b[i] >= 32 /\ b[i] <= 126) => AsciiText(b[i])[1] = 92 /\ Len(AsciiText(b[i])) > 1)

C8_Witness == op = "fmt" /\ src = "chars" /\ argChars = <<97, 255, 0, 127>> /\ retFmt = <<97, 92, 120, 102, 102, 92, 120, 48, 48, 92, 120, 55, 102>>

\* C9: kCFNotFound is -1, a CFIndex, and a search that located its target
\* yields an index >= 0, which is never kCFNotFound.
C9_NotFoundIsNoIndex ==
  /\ kCFNotFound = -1
  /\ kCFNotFound \in CFIndex
  /\ idx \in CFIndex
  /\ hit => idx >= 0 /\ idx # kCFNotFound
  /\ ~hit => idx = kCFNotFound /\ idx < 0

C9_Witness == hit /\ idx = 0

\* C10: the named constants are pairwise distinct, each four printable ASCII
\* bytes: a value equal to a named constant is equal to no other one.
C10_ConstantsDistinct ==
  (src = "const") =>
    /\ \A m \in ConstNames : AEEventClass_eq(AEEventClassConst(m), ec) => m = argName
    /\ \A i \in 1..4 : BytesOf(ec[1])[i] >= 32 /\ BytesOf(ec[1])[i] <= 126

C10_Witness == src = "const" /\ argName = "APPEARANCE" /\ ec = <<[hi |-> 24944, lo |-> 28786]>>
====
